---------------------------- MODULE Spec2Model ----------------------------
(***************************************************************************)
(* A model of the lilith evaluation core: the lval values of lval.c on an  *)
(* explicit heap (so that aliasing, copies, disposal and leaks are         *)
(* visible), the scope chain of lenv.c, the arithmetic fold of the         *)
(* builtin sums file and the list builtins and evaluator of the eval file. *)
(*                                                                         *)
(* A machine state m is a record                                           *)
(*    heap  : sequence of cells, an lval* is an index into it              *)
(*    envs  : scope id -> [parent, table, read_only]  (struct lenv)        *)
(*    dfree : a cell was released twice                                    *)
(*    ub    : an undefined read happened (released cell, out of bounds,    *)
(*            union member that was never written, integer % 0)            *)
(*    orc   : what the undefined reads of this run produce                 *)
(* and every C function f(args) becomes an operator f(m, args) returning   *)
(* the machine after the call and, where the function returns a value,     *)
(* that value: [m |-> ..., rv |-> ...].                                    *)
(***************************************************************************)
EXTENDS Integers, Sequences, FiniteSets, TLC

VARIABLES m, held, bound, call

vars == <<m, held, bound, call>>

(***************************************************************************)
(* Bounds of the model.                                                    *)
(***************************************************************************)
MaxHeld == 2       \* values the driver holds at once
MaxArgs == 3       \* length of an argument bundle
MaxNum == 2        \* integer literals range over 0..MaxNum

NULL == 0

R(mm, v) == [m |-> mm, rv |-> v]

(***************************************************************************)
(* Values: struct lval, one heap cell each.                                *)
(*   num/den : num_l (den = 1), bval (0/1), or num_d as the rational       *)
(*             num/den; den = 0 encodes the non-finite doubles             *)
(*             (num > 0: +inf, num < 0: -inf, num = 0: NaN)                *)
(*   str     : str_val, or the name of the builtin of a function value     *)
(*   args    : the arguments formatted into an error message               *)
(*   cell    : the elements of an S-/Q-expression, count = Len(cell)       *)
(***************************************************************************)
LVAL_LONG == "LVAL_LONG"
LVAL_DOUBLE == "LVAL_DOUBLE"
LVAL_BOOL == "LVAL_BOOL"
LVAL_STRING == "LVAL_STRING"
LVAL_SYMBOL == "LVAL_SYMBOL"
LVAL_ERROR == "LVAL_ERROR"
LVAL_SEXPRESSION == "LVAL_SEXPRESSION"
LVAL_QEXPRESSION == "LVAL_QEXPRESSION"
LVAL_BUILTIN_FUN == "LVAL_BUILTIN_FUN"

Cell(t, n, d, s, a, c) ==
    [live |-> TRUE, type |-> t, num |-> n, den |-> d, str |-> s, args |-> a, cell |-> c]

FreeCell ==
    [live |-> FALSE, type |-> "FREE", num |-> 0, den |-> 1, str |-> "", args |-> <<>>, cell |-> <<>>]

IsLive(mm, v) == v \in 1..Len(mm.heap) /\ mm.heap[v].live

IsList(t) == t \in {LVAL_SEXPRESSION, LVAL_QEXPRESSION}

\* The cell behind a pointer; a released or wild pointer reads as FreeCell.
Deref(mm, v) == IF IsLive(mm, v) THEN mm.heap[v] ELSE FreeCell

LVAL_EXPR_CNT(mm, v) == Len(Deref(mm, v).cell)

Min(S) == CHOOSE x \in S : \A y \in S : x <= y

Index(seq, x) == CHOOSE i \in 1..Len(seq) : seq[i] = x

\* malloc: the lowest released cell, or a new one at the end of the heap.
malloc(mm, c) ==
    LET free == {i \in 1..Len(mm.heap) : ~mm.heap[i].live}
        a == IF free = {} THEN Len(mm.heap) + 1 ELSE Min(free)
        h == IF free = {} THEN Append(mm.heap, c) ELSE [mm.heap EXCEPT ![a] = c]
    IN  R([mm EXCEPT !.heap = h], a)

\* free: releasing a cell that is not live is a double free.
free(mm, v) ==
    IF IsLive(mm, v) THEN [mm EXCEPT !.heap[v] = FreeCell]
    ELSE [mm EXCEPT !.dfree = TRUE]

lval_init(mm, t) == malloc(mm, Cell(t, 0, 1, "", <<>>, <<>>))

lval_error(mm, fmt, a) == malloc(mm, Cell(LVAL_ERROR, 0, 1, fmt, a, <<>>))

lval_long(mm, n) == malloc(mm, Cell(LVAL_LONG, n, 1, "", <<>>, <<>>))

lval_double(mm, n, d) == malloc(mm, Cell(LVAL_DOUBLE, n, d, "", <<>>, <<>>))

lval_bool(mm, b) == malloc(mm, Cell(LVAL_BOOL, IF b THEN 1 ELSE 0, 1, "", <<>>, <<>>))

lval_string(mm, s) == malloc(mm, Cell(LVAL_STRING, 0, 1, s, <<>>, <<>>))

lval_symbol(mm, s) == malloc(mm, Cell(LVAL_SYMBOL, 0, 1, s, <<>>, <<>>))

lval_sexpression(mm) == malloc(mm, Cell(LVAL_SEXPRESSION, 0, 1, "", <<>>, <<>>))

lval_qexpression(mm) == malloc(mm, Cell(LVAL_QEXPRESSION, 0, 1, "", <<>>, <<>>))

lval_fun(mm, name) == malloc(mm, Cell(LVAL_BUILTIN_FUN, 0, 1, name, <<>>, <<>>))

\* lval_add: append x to the list v, count++.
lval_add(mm, v, x) ==
    IF IsLive(mm, v)
    THEN R([mm EXCEPT !.heap[v].cell = Append(@, x)], v)
    ELSE R([mm EXCEPT !.ub = TRUE], v)

\* lval_expr_item: the i-th element (from 0), or 0 past the end.
lval_expr_item(mm, v, i) ==
    IF i < LVAL_EXPR_CNT(mm, v) THEN Deref(mm, v).cell[i + 1] ELSE NULL

\* lval_pop of lval.c: unlink and return the head of the list. The head of an
\* empty list is a null pair: rv->next dereferences it.
lval_pop(mm, v) ==
    IF LVAL_EXPR_CNT(mm, v) = 0
    THEN R([mm EXCEPT !.ub = TRUE], NULL)
    ELSE R([mm EXCEPT !.heap[v].cell = Tail(@)], Head(mm.heap[v].cell))

RECURSIVE lval_del(_, _)
RECURSIVE lval_del_list(_, _, _)

\* The loop of lval_del over the pairs of a list.
lval_del_list(mm, s, i) ==
    IF i > Len(s) THEN mm ELSE lval_del_list(lval_del(mm, s[i]), s, i + 1)

lval_del(mm, v) ==
    IF ~IsLive(mm, v) THEN [mm EXCEPT !.dfree = TRUE]
    ELSE LET c == mm.heap[v]
         IN  free(IF IsList(c.type) THEN lval_del_list(mm, c.cell, 1) ELSE mm, v)

RECURSIVE lval_take_rest(_, _)

\* The second loop of lval_take: dispose of what is left of the list.
lval_take_rest(mm, v) ==
    IF LVAL_EXPR_CNT(mm, v) = 0 THEN mm
    ELSE LET p == lval_pop(mm, v) IN lval_take_rest(lval_del(p.m, p.rv), v)

RECURSIVE lval_take_skip(_, _, _)

\* The first loop of lval_take: dispose of the i elements before the wanted one.
lval_take_skip(mm, v, i) ==
    IF i = 0 THEN mm
    ELSE LET p == lval_pop(mm, v) IN lval_take_skip(lval_del(p.m, p.rv), v, i - 1)

lval_take(mm, v, i) ==
    LET m1 == lval_take_skip(mm, v, i)
        p == lval_pop(m1, v)
        m2 == lval_take_rest(p.m, v)
    IN  R(lval_del(m2, v), p.rv)

RECURSIVE lval_copy(_, _)
RECURSIVE lval_copy_list(_, _, _, _)

\* The loop of lval_copy over the pairs of the source list s.
lval_copy_list(mm, rv, s, i) ==
    IF i > Len(s) THEN mm
    ELSE LET c == lval_copy(mm, s[i])
         IN  lval_copy_list(lval_add(c.m, rv, c.rv).m, rv, s, i + 1)

lval_copy(mm, v) ==
    LET c == Deref(mm, v)
        m0 == IF IsLive(mm, v) THEN mm ELSE [mm EXCEPT !.ub = TRUE]
        r == malloc(m0, Cell(c.type, c.num, c.den, c.str, c.args, <<>>))
    IN  IF IsList(c.type) THEN R(lval_copy_list(r.m, r.rv, c.cell, 1), r.rv) ELSE r


\* Equality of two doubles held as rationals: NaN equals nothing, an infinity
\* equals the infinity of its sign.
d_eq(n1, d1, n2, d2) ==
    IF d1 = 0 \/ d2 = 0
    THEN d1 = 0 /\ d2 = 0 /\ n1 # 0 /\ n2 # 0 /\ (n1 > 0) = (n2 > 0)
    ELSE n1 * d2 = n2 * d1

RECURSIVE lval_is_equal(_, _, _)
RECURSIVE lval_is_equal_list(_, _, _, _)

\* The loop of lval_is_equal over two pair chains, ptrx over xs and ptry over ys.
lval_is_equal_list(mm, xs, ys, i) ==
    IF i > Len(xs) \/ i > Len(ys) THEN TRUE
    ELSE IF ~lval_is_equal(mm, xs[i], ys[i]) THEN FALSE
    ELSE lval_is_equal_list(mm, xs, ys, i + 1)

lval_is_equal(mm, x, y) ==
    LET cx == Deref(mm, x)
        cy == Deref(mm, y)
    IN  IF cx.type # cy.type
        THEN IF cx.type = LVAL_LONG /\ cy.type = LVAL_DOUBLE THEN d_eq(cx.num, 1, cy.num, cy.den)
             ELSE IF cx.type = LVAL_DOUBLE /\ cy.type = LVAL_LONG THEN d_eq(cx.num, cx.den, cy.num, 1)
             ELSE FALSE
        ELSE CASE cx.type = LVAL_LONG -> cx.num = cy.num
               [] cx.type = LVAL_DOUBLE -> d_eq(cx.num, cx.den, cy.num, cy.den)
               [] cx.type = LVAL_BOOL -> cx.num = cy.num
               [] cx.type \in {LVAL_STRING, LVAL_ERROR, LVAL_SYMBOL} ->
                      cx.str = cy.str /\ cx.args = cy.args
               [] cx.type = LVAL_BUILTIN_FUN -> cx.str = cy.str
               [] IsList(cx.type) ->
                      IF Len(cx.cell) # Len(cy.cell) THEN FALSE
                      \* ptrx = x->value.list.head, ptry = x->value.list.head
                      ELSE lval_is_equal_list(mm, cx.cell, cx.cell, 1)
               [] OTHER -> FALSE

ltype_name(t) ==
    CASE t = LVAL_BUILTIN_FUN -> "Function"
      [] t = LVAL_LONG -> "Number"
      [] t = LVAL_DOUBLE -> "Decimal"
      [] t = LVAL_BOOL -> "Boolean"
      [] t = LVAL_STRING -> "String"
      [] t = LVAL_ERROR -> "Error"
      [] t = LVAL_SYMBOL -> "Symbol"
      [] t = LVAL_SEXPRESSION -> "S-Expression"
      [] t = LVAL_QEXPRESSION -> "Q-Expression"
      [] OTHER -> "Unknown"

(***************************************************************************)
(* Environments: struct lenv. The table is the hash table of the           *)
(* collections library, a finite map from names to owned values.           *)
(***************************************************************************)
hash_table_get(t, k) == k \in DOMAIN t

\* Insert or overwrite; the table releases the value it held under the key.
hash_table_add(mm, e, k, v) ==
    LET t == mm.envs[e].table
        m1 == IF k \in DOMAIN t THEN lval_del(mm, t[k]) ELSE mm
    IN  [m1 EXCEPT !.envs[e].table = [n \in DOMAIN t \cup {k} |-> IF n = k THEN v ELSE t[n]]]

RECURSIVE lenv_get(_, _, _)

\* lenv_get handing out the stored value itself instead of a copy of it.
lenv_get_nocopy(mm, e, k) ==
    LET name == Deref(mm, k).str
        t == mm.envs[e].table
    IN  IF hash_table_get(t, name) THEN R(mm, t[name])
        ELSE IF mm.envs[e].parent # NULL THEN lenv_get(mm, mm.envs[e].parent, k)
        ELSE lval_error(mm, "unbound symbol '%s'", <<name>>)

\* lenv_get searching the local table only.
lenv_get_local(mm, e, k) ==
    LET name == Deref(mm, k).str
        t == mm.envs[e].table
    IN  IF hash_table_get(t, name) THEN lval_copy(mm, t[name])
        ELSE lval_error(mm, "unbound symbol '%s'", <<name>>)

lenv_get(mm, e, k) ==
    LET name == Deref(mm, k).str
        t == mm.envs[e].table
    IN  IF hash_table_get(t, name) THEN lval_copy(mm, t[name])
        ELSE IF mm.envs[e].parent # NULL THEN lenv_get(mm, mm.envs[e].parent, k)
        ELSE lval_error(mm, "unbound symbol '%s'", <<name>>)

\* lenv_put without the read-only test.
lenv_put_unprotected(mm, e, k, v) ==
    LET c == lval_copy(mm, v)
    IN  R(hash_table_add(c.m, e, Deref(mm, k).str, c.rv), FALSE)

\* Returns TRUE when the put is rejected.
lenv_put(mm, e, k, v) ==
    LET name == Deref(mm, k).str
    IN  IF mm.envs[e].read_only /\ hash_table_get(mm.envs[e].table, name)
        THEN R(mm, TRUE)
        ELSE LET c == lval_copy(mm, v)
             IN  R(hash_table_add(c.m, e, name, c.rv), FALSE)

RECURSIVE lenv_root(_, _)

\* The loop of lenv_def: while (e->parent) e = e->parent.
lenv_root(mm, e) == IF mm.envs[e].parent # NULL THEN lenv_root(mm, mm.envs[e].parent) ELSE e

\* A def that binds in the calling scope instead of walking up to the root.
lenv_def_local(mm, e, k, v) == lenv_put(mm, e, k, v)

lenv_def(mm, e, k, v) == lenv_put(mm, lenv_root(mm, e), k, v)

(***************************************************************************)
(* What a pointer denotes: the value as a tree, independent of addresses.  *)
(* A released or wild pointer denotes FREE.                                *)
(***************************************************************************)
AVal(t, n, d, s, a, es) ==
    [type |-> t, num |-> n, den |-> d, str |-> s, args |-> a, elems |-> es]

RECURSIVE Abs(_, _)

Abs(mm, v) ==
    LET c == Deref(mm, v)
    IN  AVal(c.type, c.num, c.den, c.str, c.args, [i \in 1..Len(c.cell) |-> Abs(mm, c.cell[i])])

ALong(n) == AVal(LVAL_LONG, n, 1, "", <<>>, <<>>)
ADouble(n, d) == AVal(LVAL_DOUBLE, n, d, "", <<>>, <<>>)
ABool(b) == AVal(LVAL_BOOL, IF b THEN 1 ELSE 0, 1, "", <<>>, <<>>)
ASym(s) == AVal(LVAL_SYMBOL, 0, 1, s, <<>>, <<>>)
AFun(s) == AVal(LVAL_BUILTIN_FUN, 0, 1, s, <<>>, <<>>)
AErr(fmt, a) == AVal(LVAL_ERROR, 0, 1, fmt, a, <<>>)
AQ(es) == AVal(LVAL_QEXPRESSION, 0, 1, "", <<>>, es)
AS(es) == AVal(LVAL_SEXPRESSION, 0, 1, "", <<>>, es)

RECURSIVE Build(_, _)
RECURSIVE BuildList(_, _, _, _)

\* The reader's loop: lval_add of each element read.
BuildList(mm, rv, es, i) ==
    IF i > Len(es) THEN mm
    ELSE LET b == Build(mm, es[i])
         IN  BuildList(lval_add(b.m, rv, b.rv).m, rv, es, i + 1)

\* The value the reader constructs for the tree a.
Build(mm, a) ==
    LET r == malloc(mm, Cell(a.type, a.num, a.den, a.str, a.args, <<>>))
    IN  IF IsList(a.type) THEN R(BuildList(r.m, r.rv, a.elems, 1), r.rv) ELSE r

(***************************************************************************)
(* Start-up: lilith_init.                                                  *)
(***************************************************************************)
\* The names lenv_add_builtins_sums registers, in the order of IOPS.
SumNames == <<"-", "*", "/", "+", "^", "max", "min", "%", ">", "<", ">=", "<=">>

\* The names lenv_add_builtins registers besides the arithmetic ones.
FuncNames == <<"def", "list", "head", "tail", "eval", "join", "len", "cons", "init">>

ROOT == 1      \* env of lilith_init: read-only, the builtins
TOP == 2       \* nenv of lilith_init: the scope expressions are evaluated in

lenv_new(p, ro) == [parent |-> p, table |-> [n \in {} |-> NULL], read_only |-> ro]

NoOracle == [garbage |-> <<0, 1>>, oob |-> "stale", uaf |-> "intact"]

BuiltinNames == SumNames \o FuncNames

\* The machine lilith_init returns: lenv_add_builtin has put a copy of one
\* function value per builtin name into the read-only root, and nenv is its
\* child. Each entry of `more` is the parent of one further scope made by
\* lenv_new and lenv_set_parent.
lilith_init(more) ==
    [heap |-> [i \in 1..Len(BuiltinNames) |->
                  Cell(LVAL_BUILTIN_FUN, 0, 1, BuiltinNames[i], <<>>, <<>>)],
     envs |-> <<[parent |-> NULL, read_only |-> TRUE,
                 table |-> [n \in {BuiltinNames[i] : i \in 1..Len(BuiltinNames)} |->
                               Index(BuiltinNames, n)]],
                lenv_new(ROOT, FALSE)>>
              \o [i \in 1..Len(more) |-> lenv_new(more[i], FALSE)],
     dfree |-> FALSE, ub |-> FALSE, orc |-> NoOracle, argc |-> {}]

(***************************************************************************)
(* Arithmetic: the builtin sums file. A double is the pair <<num, den>> of *)
(* a rational in lowest terms with den > 0, or with den = 0 a non-finite   *)
(* value (see Cell). Rounding and overflow are not modelled: the model's   *)
(* operands are small.                                                     *)
(***************************************************************************)
Abs_(n) == IF n < 0 THEN -n ELSE n

Sign(n) == IF n < 0 THEN -1 ELSE IF n > 0 THEN 1 ELSE 0

RECURSIVE Gcd(_, _)

Gcd(x, y) == IF y = 0 THEN x ELSE Gcd(y, x % y)

\* The double n/d in lowest terms; n/0 is an infinity or, for 0/0, NaN.
Norm(n, d) ==
    IF d = 0 THEN <<Sign(n), 0>>
    ELSE LET g == Gcd(Abs_(n), Abs_(d))
         IN  <<(Sign(d) * n) \div g, Abs_(d) \div g>>

NaN == <<0, 0>>

IsNaN(x) == x[2] = 0 /\ x[1] = 0

IsInf(x) == x[2] = 0 /\ x[1] # 0

\* C's integer division and remainder truncate toward zero.
TruncDiv(x, y) == Sign(x) * Sign(y) * (Abs_(x) \div Abs_(y))

TruncRem(x, y) == x - TruncDiv(x, y) * y

RECURSIVE IntPow(_, _)

IntPow(x, k) == IF k = 0 THEN 1 ELSE x * IntPow(x, k - 1)

d_lt(x, y) ==
    IF IsNaN(x) \/ IsNaN(y) THEN FALSE
    ELSE IF IsInf(x) THEN x[1] < 0 /\ y # x
    ELSE IF IsInf(y) THEN y[1] > 0
    ELSE x[1] * y[2] < y[1] * x[2]

d_add(x, y) ==
    IF IsNaN(x) \/ IsNaN(y) THEN NaN
    ELSE IF IsInf(x) THEN (IF IsInf(y) /\ y # x THEN NaN ELSE x)
    ELSE IF IsInf(y) THEN y
    ELSE Norm(x[1] * y[2] + y[1] * x[2], x[2] * y[2])

d_sub(x, y) == d_add(x, <<-y[1], y[2]>>)

d_mul(x, y) ==
    IF IsNaN(x) \/ IsNaN(y) THEN NaN
    ELSE IF IsInf(x) \/ IsInf(y) THEN <<Sign(x[1]) * Sign(y[1]), 0>>
    ELSE Norm(x[1] * y[1], x[2] * y[2])

\* x / y for a y that is not zero.
d_div(x, y) ==
    IF IsNaN(x) \/ IsNaN(y) THEN NaN
    ELSE IF IsInf(y) THEN (IF IsInf(x) THEN NaN ELSE <<0, 1>>)
    ELSE IF IsInf(x) THEN <<Sign(x[1]) * Sign(y[1]), 0>>
    ELSE Norm(x[1] * y[2], x[2] * y[1])

\* fmod: the remainder of the division truncated toward zero.
d_fmod(x, y) ==
    IF IsNaN(x) \/ IsNaN(y) \/ IsInf(x) \/ y[1] = 0 THEN NaN
    ELSE IF IsInf(y) THEN x
    ELSE d_sub(x, d_mul(<<TruncDiv(x[1] * y[2], x[2] * y[1]), 1>>, y))

\* pow for an integral exponent, the only kind the model's operands give.
d_pow(x, y) ==
    IF y[2] = 1 /\ y[1] = 0 THEN <<1, 1>>
    ELSE IF IsNaN(x) \/ y[2] # 1 THEN NaN
    ELSE IF IsInf(x)
         THEN (IF y[1] < 0 THEN <<0, 1>> ELSE <<IF y[1] % 2 = 1 THEN x[1] ELSE 1, 0>>)
    ELSE IF y[1] > 0 THEN Norm(IntPow(x[1], y[1]), IntPow(x[2], y[1]))
    ELSE Norm(IntPow(x[2], -y[1]), IntPow(x[1], -y[1]))

\* The operations on two longs. x % 0, and the conversion to long of the
\* infinity powl(0, y) gives for y < 0, are undefined: the machine records it
\* and the oracle supplies the result.
add_l(mm, x, y) == lval_long(mm, x + y)
sub_l(mm, x, y) == lval_long(mm, x - y)
mul_l(mm, x, y) == lval_long(mm, x * y)
div_l(mm, x, y) ==
    IF y = 0 THEN lval_error(mm, "divide by zero", <<>>)
    ELSE LET q == Norm(x, y) IN lval_double(mm, q[1], q[2])
max_l(mm, x, y) == lval_long(mm, IF x > y THEN x ELSE y)
min_l(mm, x, y) == lval_long(mm, IF x < y THEN x ELSE y)
mod_l(mm, x, y) ==
    IF y = 0 THEN lval_long([mm EXCEPT !.ub = TRUE], mm.orc.garbage[1])
    ELSE lval_long(mm, TruncRem(x, y))
pow_l(mm, x, y) ==
    IF y >= 0 THEN lval_long(mm, IntPow(x, y))
    ELSE IF x = 0 THEN lval_long([mm EXCEPT !.ub = TRUE], mm.orc.garbage[1])
    ELSE lval_long(mm, IF Abs_(x) = 1 THEN IntPow(x, -y) ELSE 0)

\* The operations on two doubles.
add_d(mm, x, y) == LET r == d_add(x, y) IN lval_double(mm, r[1], r[2])
sub_d(mm, x, y) == LET r == d_sub(x, y) IN lval_double(mm, r[1], r[2])
mul_d(mm, x, y) == LET r == d_mul(x, y) IN lval_double(mm, r[1], r[2])
div_d(mm, x, y) ==
    IF y[2] # 0 /\ y[1] = 0 THEN lval_error(mm, "divide by zero", <<>>)
    ELSE LET r == d_div(x, y) IN lval_double(mm, r[1], r[2])
max_d(mm, x, y) == LET r == IF d_lt(y, x) THEN x ELSE y IN lval_double(mm, r[1], r[2])
min_d(mm, x, y) == LET r == IF d_lt(x, y) THEN x ELSE y IN lval_double(mm, r[1], r[2])
mod_d(mm, x, y) == LET r == d_fmod(x, y) IN lval_double(mm, r[1], r[2])
pow_d(mm, x, y) == LET r == d_pow(x, y) IN lval_double(mm, r[1], r[2])
gt(mm, x, y) == lval_bool(mm, d_lt(y, x))
lt(mm, x, y) == lval_bool(mm, d_lt(x, y))
gte(mm, x, y) == lval_bool(mm, d_lt(y, x) \/ d_eq(x[1], x[2], y[1], y[2]))
lte(mm, x, y) == lval_bool(mm, d_lt(x, y) \/ d_eq(x[1], x[2], y[1], y[2]))

IOPS == <<"SUB", "MUL", "DIV", "ADD", "POW", "MAX", "MIN", "MOD", "GT", "LT", "GTE", "LTE">>

\* The operation IOPS pairs with two longs: the comparisons take doubles.
LOP(mm, iop, x, y) ==
    CASE iop = "SUB" -> sub_l(mm, x, y)
      [] iop = "MUL" -> mul_l(mm, x, y)
      [] iop = "DIV" -> div_l(mm, x, y)
      [] iop = "ADD" -> add_l(mm, x, y)
      [] iop = "POW" -> pow_l(mm, x, y)
      [] iop = "MAX" -> max_l(mm, x, y)
      [] iop = "MIN" -> min_l(mm, x, y)
      [] iop = "MOD" -> mod_l(mm, x, y)
      [] iop = "GT" -> gt(mm, <<x, 1>>, <<y, 1>>)
      [] iop = "LT" -> lt(mm, <<x, 1>>, <<y, 1>>)
      [] iop = "GTE" -> gte(mm, <<x, 1>>, <<y, 1>>)
      [] iop = "LTE" -> lte(mm, <<x, 1>>, <<y, 1>>)

\* The operation IOPS pairs with two doubles.
DOP(mm, iop, x, y) ==
    CASE iop = "SUB" -> sub_d(mm, x, y)
      [] iop = "MUL" -> mul_d(mm, x, y)
      [] iop = "DIV" -> div_d(mm, x, y)
      [] iop = "ADD" -> add_d(mm, x, y)
      [] iop = "POW" -> pow_d(mm, x, y)
      [] iop = "MAX" -> max_d(mm, x, y)
      [] iop = "MIN" -> min_d(mm, x, y)
      [] iop = "MOD" -> mod_d(mm, x, y)
      [] iop = "GT" -> gt(mm, x, y)
      [] iop = "LT" -> lt(mm, x, y)
      [] iop = "GTE" -> gte(mm, x, y)
      [] iop = "LTE" -> lte(mm, x, y)

\* value.num_d of a cell: of a cell that is no double (an error, a boolean) it
\* is whatever the bytes of the union hold, here the oracle's double.
num_d(mm, c) == IF c.type = LVAL_DOUBLE THEN <<c.num, c.den>> ELSE mm.orc.garbage

\* do_calc: neither xval nor yval is released.
do_calc(mm, iop, xval, yval) ==
    LET x == Deref(mm, xval)
        y == Deref(mm, yval)
        m1 == IF x.type \in {LVAL_LONG, LVAL_DOUBLE} /\ y.type \in {LVAL_LONG, LVAL_DOUBLE}
              THEN mm ELSE [mm EXCEPT !.ub = TRUE]
    IN  IF x.type = LVAL_LONG /\ y.type = LVAL_LONG THEN LOP(m1, iop, x.num, y.num)
        ELSE IF x.type = LVAL_LONG THEN DOP(m1, iop, <<x.num, 1>>, num_d(m1, y))
        ELSE IF y.type = LVAL_LONG THEN DOP(m1, iop, num_d(m1, x), <<y.num, 1>>)
        ELSE DOP(m1, iop, num_d(m1, x), num_d(m1, y))

\* LASSERT: on a failed condition make the error, dispose of args, return.
LASSERT(mm, args, fmt, a) ==
    LET err == lval_error(mm, fmt, a) IN R(lval_del(err.m, args), err.rv)

RECURSIVE builtin_op_check(_, _, _)

\* The validation loop of builtin_op: the first element that is not numeric,
\* or NULL.
builtin_op_check(mm, a, i) ==
    IF i >= LVAL_EXPR_CNT(mm, a) THEN NULL
    ELSE IF Deref(mm, lval_expr_item(mm, a, i)).type \in {LVAL_LONG, LVAL_DOUBLE}
         THEN builtin_op_check(mm, a, i + 1)
    ELSE lval_expr_item(mm, a, i)

RECURSIVE builtin_op_fold(_, _, _, _)

\* The loop of builtin_op: while elements remain, x = do_calc(iop, x, pop(a)).
builtin_op_fold(mm, iop, a, x) ==
    IF LVAL_EXPR_CNT(mm, a) > 0
    THEN LET y == lval_pop(mm, a)
             c == do_calc(y.m, iop, x, y.rv)
         IN  builtin_op_fold(c.m, iop, a, c.rv)
    ELSE R(mm, x)

builtin_op(mm, env, a, symbol, iop) ==
    LET bad == builtin_op_check(mm, a, 0)
        x == lval_pop(mm, a)
        m1 == IF LVAL_EXPR_CNT(x.m, a) = 0 /\ iop = "SUB"
              THEN [x.m EXCEPT !.heap[x.rv].num = -@]
              ELSE x.m
        r == builtin_op_fold(m1, iop, a, x.rv)
    IN  IF env = NULL THEN LASSERT(mm, a, "environment not set for '%s'", <<symbol>>)
        ELSE IF bad # NULL
             THEN LASSERT(mm, a, "function '%s' type mismatch - expected numeric, received %s",
                          <<symbol, ltype_name(Deref(mm, bad).type)>>)
        ELSE R(lval_del(r.m, a), r.rv)

\* builtin_##X: the operation each arithmetic name dispatches to.
builtin_sum(mm, env, a, symbol) == builtin_op(mm, env, a, symbol, IOPS[Index(SumNames, symbol)])

(***************************************************************************)
(* The list builtins and the evaluator: the eval file. It keeps the        *)
(* elements of a list in an array, cell[0..count-1], and indexes it with   *)
(* LVAL_EXPR_ITEM without a bounds test. Reading the slot right after the  *)
(* last element finds, when the oracle says "stale", what lval_pop's       *)
(* memmove left there (the last element once more), and otherwise a wild   *)
(* pointer; the machine records the undefined read.                        *)
(***************************************************************************)
LVAL_EXPR_ITEM(mm, v, i) ==
    LET c == Deref(mm, v).cell
    IN  IF i \in 0..(Len(c) - 1) THEN c[i + 1]
        ELSE IF mm.orc.oob = "stale" /\ i = Len(c) /\ Len(c) > 0 THEN c[Len(c)]
        ELSE NULL

\* The machine after reading LVAL_EXPR_ITEM(v, i).
Touch(mm, v, i) == IF i \in 0..(LVAL_EXPR_CNT(mm, v) - 1) THEN mm ELSE [mm EXCEPT !.ub = TRUE]

\* lval_pop of the eval file: take element i out of the array.
lval_pop_i(mm, v, i) ==
    LET c == Deref(mm, v).cell
    IN  IF i \in 0..(Len(c) - 1)
        THEN R([mm EXCEPT !.heap[v].cell = SubSeq(c, 1, i) \o SubSeq(c, i + 2, Len(c))], c[i + 1])
        ELSE R([mm EXCEPT !.ub = TRUE], LVAL_EXPR_ITEM(mm, v, i))

\* lval_take of the eval file.
lval_take_i(mm, v, i) == LET x == lval_pop_i(mm, v, i) IN R(lval_del(x.m, v), x.rv)

IntStr(n) == IF n \in 0..9 THEN <<"0", "1", "2", "3", "4", "5", "6", "7", "8", "9">>[n + 1] ELSE "10+"

LASSERT_ENV(mm, arg, symbol) == LASSERT(mm, arg, "environment not set for '%s'", <<symbol>>)

LASSERT_NUM_ARGS(mm, arg, expected, symbol) ==
    LASSERT(mm, arg, "function '%s' expects %d argument, received %d",
            <<symbol, IntStr(expected), IntStr(LVAL_EXPR_CNT(mm, arg))>>)

LASSERT_TYPE_ARG(mm, arg, idx, expected, symbol) ==
    LASSERT(Touch(mm, arg, idx), arg, "function '%s' type mismatch - expected %s, received %s",
            <<symbol, ltype_name(expected), ltype_name(Deref(mm, LVAL_EXPR_ITEM(mm, arg, idx)).type)>>)

\* The checks head, tail and init share: NULL-env, one argument, a
\* Q-expression, not empty. "ok", or the failed check.
OneListCheck(mm, env, val) ==
    IF env = NULL THEN "env"
    ELSE IF LVAL_EXPR_CNT(mm, val) # 1 THEN "num"
    ELSE IF Deref(mm, LVAL_EXPR_ITEM(mm, val, 0)).type # LVAL_QEXPRESSION THEN "type"
    ELSE IF LVAL_EXPR_CNT(mm, LVAL_EXPR_ITEM(mm, val, 0)) = 0 THEN "empty"
    ELSE "ok"

OneListFail(mm, chk, symbol, val) ==
    CASE chk = "env" -> LASSERT_ENV(mm, val, symbol)
      [] chk = "num" -> LASSERT_NUM_ARGS(mm, val, 1, symbol)
      [] chk = "type" -> LASSERT_TYPE_ARG(mm, val, 0, LVAL_QEXPRESSION, symbol)
      [] chk = "empty" -> LASSERT(mm, val, "empty q-expression passed to '%s'", <<symbol>>)

RECURSIVE builtin_head_loop(_, _)

\* while (rv->count > 1) lval_del(lval_pop(rv, 1))
builtin_head_loop(mm, rv) ==
    IF LVAL_EXPR_CNT(mm, rv) > 1
    THEN LET x == lval_pop_i(mm, rv, 1) IN builtin_head_loop(lval_del(x.m, x.rv), rv)
    ELSE mm

builtin_head(mm, env, symbol, val) ==
    LET chk == OneListCheck(mm, env, val)
        rv == lval_take_i(mm, val, 0)
    IN  IF chk # "ok" THEN OneListFail(mm, chk, symbol, val)
        ELSE R(builtin_head_loop(rv.m, rv.rv), rv.rv)

builtin_tail(mm, env, symbol, val) ==
    LET chk == OneListCheck(mm, env, val)
        rv == lval_take_i(mm, val, 0)
        x == lval_pop_i(rv.m, rv.rv, 0)
    IN  IF chk # "ok" THEN OneListFail(mm, chk, symbol, val)
        ELSE R(lval_del(x.m, x.rv), rv.rv)

\* builtin_init popping the first element instead of the last.
builtin_init_first(mm, env, symbol, val) ==
    LET chk == OneListCheck(mm, env, val)
        rv == lval_take_i(mm, val, 0)
        x == lval_pop_i(rv.m, rv.rv, 0)
    IN  IF chk # "ok" THEN OneListFail(mm, chk, symbol, val)
        ELSE R(lval_del(x.m, x.rv), rv.rv)

builtin_init(mm, env, symbol, val) ==
    LET chk == OneListCheck(mm, env, val)
        rv == lval_take_i(mm, val, 0)
        x == lval_pop_i(rv.m, rv.rv, LVAL_EXPR_CNT(rv.m, rv.rv) - 1)
    IN  IF chk # "ok" THEN OneListFail(mm, chk, symbol, val)
        ELSE R(lval_del(x.m, x.rv), rv.rv)

\* builtin_len: the list taken out of the bundle is not released.
builtin_len(mm, env, symbol, val) ==
    LET x == lval_take_i(mm, val, 0)
    IN  IF env = NULL THEN LASSERT_ENV(mm, val, symbol)
        ELSE IF LVAL_EXPR_CNT(mm, val) # 1 THEN LASSERT_NUM_ARGS(mm, val, 1, symbol)
        ELSE IF Deref(mm, LVAL_EXPR_ITEM(mm, val, 0)).type # LVAL_QEXPRESSION
             THEN LASSERT_TYPE_ARG(mm, val, 0, LVAL_QEXPRESSION, symbol)
        ELSE lval_long(x.m, LVAL_EXPR_CNT(x.m, x.rv))

builtin_list(mm, env, symbol, val) ==
    IF env = NULL THEN LASSERT_ENV(mm, val, symbol)
    ELSE R([mm EXCEPT !.heap[val].type = LVAL_QEXPRESSION], val)

RECURSIVE lval_join(_, _, _)

\* lval_join: move the elements of y to the end of x, release y.
lval_join(mm, x, y) ==
    IF LVAL_EXPR_CNT(mm, y) > 0
    THEN LET e == lval_pop_i(mm, y, 0) IN lval_join(lval_add(e.m, x, e.rv).m, x, y)
    ELSE R(lval_del(mm, y), x)

RECURSIVE builtin_join_check(_, _, _)

\* The validation loop of builtin_join: the index of the first argument that
\* is no Q-expression, or -1.
builtin_join_check(mm, val, i) ==
    IF i >= LVAL_EXPR_CNT(mm, val) THEN -1
    ELSE IF Deref(mm, LVAL_EXPR_ITEM(mm, val, i)).type # LVAL_QEXPRESSION THEN i
    ELSE builtin_join_check(mm, val, i + 1)

RECURSIVE builtin_join_loop(_, _, _)

\* while (val->count) x = lval_join(x, lval_pop(val, 0))
builtin_join_loop(mm, val, x) ==
    IF LVAL_EXPR_CNT(mm, val) > 0
    THEN LET y == lval_pop_i(mm, val, 0) IN builtin_join_loop(lval_join(y.m, x, y.rv).m, val, x)
    ELSE mm

builtin_join(mm, env, symbol, val) ==
    LET bad == builtin_join_check(mm, val, 0)
        x == lval_pop_i(mm, val, 0)
    IN  IF env = NULL THEN LASSERT_ENV(mm, val, symbol)
        ELSE IF bad # -1 THEN LASSERT_TYPE_ARG(mm, val, bad, LVAL_QEXPRESSION, symbol)
        ELSE R(lval_del(builtin_join_loop(x.m, val, x.rv), val), x.rv)

RECURSIVE builtin_cons_loop(_, _, _)

\* while (LVAL_EXPR_ITEM(val, 1)->count) rv = lval_add(rv, lval_pop(LVAL_EXPR_ITEM(val, 1), 0))
builtin_cons_loop(mm, val, rv) ==
    LET q == LVAL_EXPR_ITEM(mm, val, 1)
        m1 == Touch(mm, val, 1)
    IN  IF LVAL_EXPR_CNT(m1, q) > 0
        THEN LET e == lval_pop_i(m1, q, 0) IN builtin_cons_loop(lval_add(e.m, rv, e.rv).m, val, rv)
        ELSE m1

builtin_cons(mm, env, symbol, val) ==
    LET rv == lval_qexpression(mm)
        x == lval_pop_i(rv.m, val, 0)
        m1 == lval_add(x.m, rv.rv, x.rv).m
    IN  IF env = NULL THEN LASSERT_ENV(mm, val, symbol)
        ELSE IF LVAL_EXPR_CNT(mm, val) # 2 THEN LASSERT_NUM_ARGS(mm, val, 2, symbol)
        ELSE IF Deref(mm, LVAL_EXPR_ITEM(mm, val, 0)).type
                    \notin {LVAL_LONG, LVAL_DOUBLE, LVAL_BUILTIN_FUN}
             THEN LASSERT(mm, val, "first '%s' parameter should be a value or a function", <<symbol>>)
        ELSE IF Deref(mm, LVAL_EXPR_ITEM(mm, val, 1)).type # LVAL_QEXPRESSION
             THEN LASSERT(mm, val, "second '%s' parameter should be a q-expression", <<symbol>>)
        ELSE R(lval_del(builtin_cons_loop(m1, val, rv.rv), val), rv.rv)

\* The arithmetic of the eval file: its own IOPS (the first eight of the sums
\* file's, no comparisons), operations, do_calc and builtin_op. Its operations
\* are those of the sums file but for div_l, which divides two longs as longs.
eval_div_l(mm, x, y) ==
    IF y = 0 THEN lval_error(mm, "divide by zero", <<>>)
    ELSE lval_long(mm, TruncDiv(x, y))

eval_LOP(mm, iop, x, y) == IF iop = "DIV" THEN eval_div_l(mm, x, y) ELSE LOP(mm, iop, x, y)

\* do_calc of the eval file: xval and yval are released once the result is made.
eval_do_calc(mm, iop, xval, yval) ==
    LET x == Deref(mm, xval)
        y == Deref(mm, yval)
        m1 == IF x.type \in {LVAL_LONG, LVAL_DOUBLE} /\ y.type \in {LVAL_LONG, LVAL_DOUBLE}
              THEN mm ELSE [mm EXCEPT !.ub = TRUE]
        rv == IF x.type = LVAL_LONG /\ y.type = LVAL_LONG THEN eval_LOP(m1, iop, x.num, y.num)
              ELSE IF x.type = LVAL_LONG THEN DOP(m1, iop, <<x.num, 1>>, num_d(m1, y))
              ELSE IF y.type = LVAL_LONG THEN DOP(m1, iop, num_d(m1, x), <<y.num, 1>>)
              ELSE DOP(m1, iop, num_d(m1, x), num_d(m1, y))
    IN  R(lval_del(lval_del(rv.m, xval), yval), rv.rv)

RECURSIVE eval_builtin_op_check(_, _, _)

\* The validation loop of the eval file's builtin_op: the index of the first
\* element that is not numeric, or -1.
eval_builtin_op_check(mm, a, i) ==
    IF i >= LVAL_EXPR_CNT(mm, a) THEN -1
    ELSE IF Deref(mm, LVAL_EXPR_ITEM(mm, a, i)).type \in {LVAL_LONG, LVAL_DOUBLE}
         THEN eval_builtin_op_check(mm, a, i + 1)
    ELSE i

RECURSIVE eval_builtin_op_fold(_, _, _, _)

eval_builtin_op_fold(mm, iop, a, x) ==
    IF LVAL_EXPR_CNT(mm, a) > 0
    THEN LET y == lval_pop_i(mm, a, 0)
             c == eval_do_calc(y.m, iop, x, y.rv)
         IN  eval_builtin_op_fold(c.m, iop, a, c.rv)
    ELSE R(mm, x)

eval_builtin_op(mm, env, symbol, a, iop) ==
    LET bad == eval_builtin_op_check(mm, a, 0)
        x == lval_pop_i(mm, a, 0)
        m1 == IF LVAL_EXPR_CNT(x.m, a) = 0 /\ iop = "SUB"
              THEN [x.m EXCEPT !.heap[x.rv].num = -@]
              ELSE x.m
        r == eval_builtin_op_fold(m1, iop, a, x.rv)
    IN  IF env = NULL THEN LASSERT_ENV(mm, a, symbol)
        ELSE IF bad # -1
             THEN LASSERT(mm, a, "function '%s' type mismatch - expected numeric, received %s",
                          <<symbol, ltype_name(Deref(mm, LVAL_EXPR_ITEM(mm, a, bad)).type)>>)
        ELSE R(lval_del(r.m, a), r.rv)

\* The names the eval file's lenv_add_builtins registers for arithmetic.
EvalSumNames == {"+", "-", "*", "/", "min", "max", "^", "%"}

\* builtin_add .. builtin_mod of the eval file.
eval_builtin_sum(mm, env, symbol, a) ==
    eval_builtin_op(mm, env, symbol, a, IOPS[Index(SumNames, symbol)])

RECURSIVE lval_eval(_, _, _)

builtin_eval(mm, env, symbol, val) ==
    LET x == lval_take_i(mm, val, 0)
    IN  IF env = NULL THEN LASSERT_ENV(mm, val, symbol)
        ELSE IF LVAL_EXPR_CNT(mm, val) # 1 THEN LASSERT_NUM_ARGS(mm, val, 1, symbol)
        ELSE IF Deref(mm, LVAL_EXPR_ITEM(mm, val, 0)).type # LVAL_QEXPRESSION
             THEN LASSERT_TYPE_ARG(mm, val, 0, LVAL_QEXPRESSION, symbol)
        ELSE lval_eval([x.m EXCEPT !.heap[x.rv].type = LVAL_SEXPRESSION], env, x.rv)

RECURSIVE builtin_def_check(_, _, _)

\* The first loop of builtin_def: the index of the first element of syms that
\* is no symbol, or -1.
builtin_def_check(mm, syms, i) ==
    IF i >= LVAL_EXPR_CNT(mm, syms) THEN -1
    ELSE IF Deref(mm, LVAL_EXPR_ITEM(mm, syms, i)).type # LVAL_SYMBOL THEN i
    ELSE builtin_def_check(mm, syms, i + 1)

RECURSIVE builtin_def_put(_, _, _, _, _)
RECURSIVE builtin_def_put_unchecked(_, _, _, _, _)

\* The loop of builtin_def ignoring what lenv_put returns.
builtin_def_put_unchecked(mm, env, val, syms, i) ==
    IF i >= LVAL_EXPR_CNT(mm, syms) THEN R(mm, -1)
    ELSE LET p == lenv_put(mm, env, LVAL_EXPR_ITEM(mm, syms, i), LVAL_EXPR_ITEM(mm, val, i + 1))
         IN  builtin_def_put_unchecked(p.m, env, val, syms, i + 1)

\* The second loop of builtin_def: lenv_put of each symbol into env, up to the
\* first one rejected. rv is the index of the rejected symbol, or -1.
builtin_def_put(mm, env, val, syms, i) ==
    IF i >= LVAL_EXPR_CNT(mm, syms) THEN R(mm, -1)
    ELSE LET p == lenv_put(mm, env, LVAL_EXPR_ITEM(mm, syms, i), LVAL_EXPR_ITEM(mm, val, i + 1))
         IN  IF p.rv THEN R(p.m, i) ELSE builtin_def_put(p.m, env, val, syms, i + 1)

builtin_def(mm, env, symbol, val) ==
    LET syms == LVAL_EXPR_ITEM(mm, val, 0)
        bad == builtin_def_check(mm, syms, 0)
        put == builtin_def_put(mm, env, val, syms, 0)
    IN  IF env = NULL THEN LASSERT_ENV(mm, val, symbol)
        ELSE IF Deref(mm, syms).type # LVAL_QEXPRESSION
             THEN LASSERT_TYPE_ARG(mm, val, 0, LVAL_QEXPRESSION, symbol)
        ELSE IF bad # -1
             THEN LASSERT(mm, val, "function '%s' type mismatch - expected %s, received %s",
                          <<symbol, ltype_name(LVAL_SYMBOL),
                            ltype_name(Deref(mm, LVAL_EXPR_ITEM(mm, syms, bad)).type)>>)
        ELSE IF LVAL_EXPR_CNT(mm, syms) # LVAL_EXPR_CNT(mm, val) - 1
             THEN LASSERT(mm, val, "function '%s' argument mismatch - %d symbols, %d values",
                          <<symbol, IntStr(LVAL_EXPR_CNT(mm, syms)), IntStr(LVAL_EXPR_CNT(mm, val) - 1)>>)
        ELSE IF put.rv # -1
             THEN LASSERT(put.m, val, "function '%s' is a built-in",
                          <<Deref(put.m, LVAL_EXPR_ITEM(put.m, syms, put.rv)).str>>)
        ELSE lval_sexpression(lval_del(put.m, val))

\* first->value.fhandle.fun(env, symbol, val): the function registered under
\* the name the function value carries.
fhandle_fun(mm, env, symbol, val) ==
    CASE symbol = "def" -> builtin_def(mm, env, symbol, val)
      [] symbol = "list" -> builtin_list(mm, env, symbol, val)
      [] symbol = "head" -> builtin_head(mm, env, symbol, val)
      [] symbol = "tail" -> builtin_tail(mm, env, symbol, val)
      [] symbol = "eval" -> builtin_eval(mm, env, symbol, val)
      [] symbol = "join" -> builtin_join(mm, env, symbol, val)
      [] symbol = "len" -> builtin_len(mm, env, symbol, val)
      [] symbol = "cons" -> builtin_cons(mm, env, symbol, val)
      [] symbol = "init" -> builtin_init(mm, env, symbol, val)
      [] OTHER -> builtin_sum(mm, env, val, symbol)

RECURSIVE lval_eval_children(_, _, _, _)

\* The first loop of lval_eval_sexpr: every child is replaced by its value.
lval_eval_children(mm, env, val, i) ==
    IF i >= LVAL_EXPR_CNT(mm, val) THEN mm
    ELSE LET r == lval_eval(mm, env, LVAL_EXPR_ITEM(mm, val, i))
         IN  lval_eval_children([r.m EXCEPT !.heap[val].cell[i + 1] = r.rv], env, val, i + 1)

RECURSIVE lval_eval_error(_, _, _)

\* The second loop of lval_eval_sexpr: the index of the first child that is an
\* error, or -1.
lval_eval_error(mm, val, i) ==
    IF i >= LVAL_EXPR_CNT(mm, val) THEN -1
    ELSE IF Deref(mm, LVAL_EXPR_ITEM(mm, val, i)).type = LVAL_ERROR THEN i
    ELSE lval_eval_error(mm, val, i + 1)

\* first->type read after lval_del(first): the released bytes still hold the
\* tag, or something else.
type_after_free(mm, t) == IF mm.orc.uaf = "intact" THEN t ELSE "FREE"

\* Bookkeeping of the calls made: argc holds the element count of every bundle
\* a builtin was invoked with.
Invoke(mm, val) == [mm EXCEPT !.argc = @ \cup {LVAL_EXPR_CNT(mm, val)}]

\* lval_eval_sexpr without the return of a single element: it applies it.
lval_eval_sexpr_nosingle(mm, env, val) ==
    LET m1 == lval_eval_children(mm, env, val, 0)
        err == lval_eval_error(m1, val, 0)
        first == lval_pop_i(m1, val, 0)
        ftype == Deref(m1, first.rv).type
        m2 == [lval_del(lval_del(first.m, first.rv), val) EXCEPT !.ub = TRUE]
        result == fhandle_fun(Invoke(first.m, val), env, Deref(m1, first.rv).str, val)
    IN  IF err # -1 THEN lval_take_i(m1, val, err)
        ELSE IF LVAL_EXPR_CNT(m1, val) = 0 THEN R(m1, val)
        ELSE IF ftype # LVAL_BUILTIN_FUN
             THEN lval_error(m2, "s-expression does not start with function, '%s'",
                             <<ltype_name(type_after_free(m2, ftype))>>)
        ELSE R(lval_del(result.m, first.rv), result.rv)

lval_eval_sexpr(mm, env, val) ==
    LET m1 == lval_eval_children(mm, env, val, 0)
        err == lval_eval_error(m1, val, 0)
        first == lval_pop_i(m1, val, 0)
        ftype == Deref(m1, first.rv).type
        m2 == [lval_del(lval_del(first.m, first.rv), val) EXCEPT !.ub = TRUE]
        result == fhandle_fun(Invoke(first.m, val), env, Deref(m1, first.rv).str, val)
    IN  IF err # -1 THEN lval_take_i(m1, val, err)
        ELSE IF LVAL_EXPR_CNT(m1, val) = 0 THEN R(m1, val)
        ELSE IF LVAL_EXPR_CNT(m1, val) = 1 THEN lval_take_i(m1, val, 0)
        ELSE IF ftype # LVAL_BUILTIN_FUN
             THEN lval_error(m2, "s-expression does not start with function, '%s'",
                             <<ltype_name(type_after_free(m2, ftype))>>)
        ELSE R(lval_del(result.m, first.rv), result.rv)

lval_eval(mm, env, val) ==
    IF Deref(mm, val).type = LVAL_SYMBOL
    THEN LET x == lenv_get(mm, env, val) IN R(lval_del(x.m, val), x.rv)
    ELSE IF Deref(mm, val).type = LVAL_SEXPRESSION THEN lval_eval_sexpr(mm, env, val)
    ELSE R(mm, val)

(***************************************************************************)
(* Addresses are opaque to the program: two machines that differ by a      *)
(* renaming of addresses behave alike. Each scenario step stores the       *)
(* machine with its live cells renumbered in a fixed order (the bindings   *)
(* scope by scope and name by name, then what the driver holds, then       *)
(* whatever else is live) and with the released cells dropped; a pointer   *)
(* to a released cell becomes NULL, which reads the same: as released.     *)
(***************************************************************************)
NameOrder == BuiltinNames \o <<"a", "b">>

\* The values of a table, in the order of NameOrder.
TableRoots(t) ==
    LET names == SelectSeq(NameOrder, LAMBDA n : n \in DOMAIN t)
    IN  [i \in 1..Len(names) |-> t[names[i]]]

RECURSIVE EnvRoots(_, _)

EnvRoots(mm, e) ==
    IF e > Len(mm.envs) THEN <<>> ELSE TableRoots(mm.envs[e].table) \o EnvRoots(mm, e + 1)

InSeq(x, seq) == \E i \in 1..Len(seq) : seq[i] = x

RECURSIVE Visit(_, _, _)

\* The live cells reachable from todo, in depth-first order, after acc.
Visit(mm, todo, acc) ==
    IF todo = <<>> THEN acc
    ELSE LET v == Head(todo)
         IN  IF ~IsLive(mm, v) \/ InSeq(v, acc) THEN Visit(mm, Tail(todo), acc)
             ELSE Visit(mm, mm.heap[v].cell \o Tail(todo), Append(acc, v))

RECURSIVE FixedPrefix(_, _, _)

\* How many of the first roots already sit, childless, at their final address.
FixedPrefix(mm, roots, k) ==
    IF k < Len(roots) /\ roots[k + 1] = k + 1 /\ IsLive(mm, k + 1) /\ mm.heap[k + 1].cell = <<>>
    THEN FixedPrefix(mm, roots, k + 1)
    ELSE k

RECURSIVE Ascending(_)

Ascending(S) == IF S = {} THEN <<>> ELSE <<Min(S)>> \o Ascending(S \ {Min(S)})

CanonOrder(mm, ptrs) ==
    LET roots == EnvRoots(mm, 1) \o ptrs
        k == FixedPrefix(mm, roots, 0)
        reach == Visit(mm, SubSeq(roots, k + 1, Len(roots)), [i \in 1..k |-> i])
        rest == {i \in 1..Len(mm.heap) : mm.heap[i].live} \ {reach[i] : i \in 1..Len(reach)}
    IN  IF rest = {} THEN reach ELSE Visit(mm, Ascending(rest), reach)

NewAddr(order, v) ==
    IF v \in 1..Len(order) /\ order[v] = v THEN v
    ELSE IF InSeq(v, order) THEN Index(order, v) ELSE NULL

Canon(mm, order) ==
    [mm EXCEPT
       !.heap = [i \in 1..Len(order) |->
                   [mm.heap[order[i]] EXCEPT !.cell = [j \in 1..Len(@) |-> NewAddr(order, @[j])]]],
       !.envs = [e \in 1..Len(mm.envs) |->
                   [mm.envs[e] EXCEPT !.table = [n \in DOMAIN @ |-> NewAddr(order, @[n])]]]]

(***************************************************************************)
(* Scenario 1 (SpecEnv): a driver using the scope chain. It puts and       *)
(* defines values it built and gets values, disposing of each value it     *)
(* built or was given once the call is over.                               *)
(*   bound : per scope, the value each accepted put stored under each name *)
(*   call  : the last call                                                 *)
(***************************************************************************)
\* Scope 3 is made by lenv_new and lenv_set_parent: nested in TOP (a call
\* scope) or a second child of the root.
Scopes == 1..3

Keys == {"+", "a"}

PutValues == {ALong(1), ALong(2)}

NoVal == AVal("NONE", 0, 1, "", <<>>, <<>>)

TableAbs(mm, e) == [n \in DOMAIN mm.envs[e].table |-> Abs(mm, mm.envs[e].table[n])]

NoCall == [op |-> "none", e |-> 0, k |-> "", v |-> NoVal, rej |-> FALSE, rv |-> NoVal]

InitEnv ==
    /\ \E p \in {TOP, ROOT} : m = lilith_init(<<p>>)
    /\ held = <<>>
    /\ bound = [e \in Scopes |-> TableAbs(m, e)]
    /\ call = NoCall

\* The driver builds v and the symbol k, calls put (lenv_put or lenv_def) and
\* disposes of the symbol; it keeps v when `keep`, and disposes of it otherwise.
EnvStore(op, target, e, k, a, keep) ==
    \E b \in {Build(m, a)} :
    \E ks \in {lval_symbol(b.m, k)} :
    \E p \in {IF op = "def" THEN lenv_def(ks.m, e, ks.rv, b.rv) ELSE lenv_put(ks.m, e, ks.rv, b.rv)} :
    \E m2 \in {lval_del(p.m, ks.rv)} :
    \E m3 \in {IF keep THEN m2 ELSE lval_del(m2, b.rv)} :
    \E order \in {CanonOrder(m3, [i \in 1..Len(held) |-> held[i].p]
                                  \o (IF keep THEN <<b.rv>> ELSE <<>>))} :
        /\ m' = Canon(m3, order)
        /\ held' = [i \in 1..Len(held) |-> [held[i] EXCEPT !.p = NewAddr(order, @)]]
                   \o (IF keep THEN <<[p |-> NewAddr(order, b.rv), from |-> op]>>
                       ELSE <<>>)
        /\ bound' = IF p.rv THEN bound
                    ELSE [bound EXCEPT ![target] =
                            [n \in DOMAIN @ \cup {k} |-> IF n = k THEN a ELSE @[n]]]
        /\ call' = [NoCall EXCEPT !.op = op, !.e = e, !.k = k, !.v = a, !.rej = p.rv]

\* The driver builds the symbol k, calls lenv_get and disposes of the symbol; it
\* keeps the value returned when `keep`, and disposes of it otherwise.
EnvFetch(e, k, keep) ==
    \E ks \in {lval_symbol(m, k)} :
    \E g \in {lenv_get(ks.m, e, ks.rv)} :
    \E m2 \in {lval_del(g.m, ks.rv)} :
    \E m3 \in {IF keep THEN m2 ELSE lval_del(m2, g.rv)} :
    \E order \in {CanonOrder(m3, [i \in 1..Len(held) |-> held[i].p]
                                  \o (IF keep THEN <<g.rv>> ELSE <<>>))} :
        /\ m' = Canon(m3, order)
        /\ held' = [i \in 1..Len(held) |-> [held[i] EXCEPT !.p = NewAddr(order, @)]]
                   \o (IF keep THEN <<[p |-> NewAddr(order, g.rv), from |-> "get"]>>
                       ELSE <<>>)
        /\ call' = [NoCall EXCEPT !.op = "get", !.e = e, !.k = k, !.rv = Abs(m2, g.rv)]
        /\ UNCHANGED bound

EnvPut == \E e \in Scopes, k \in Keys, a \in PutValues : EnvStore("put", e, e, k, a, FALSE)

EnvDef == \E e \in Scopes, k \in Keys, a \in PutValues : EnvStore("def", ROOT, e, k, a, FALSE)

EnvGet == \E e \in Scopes, k \in Keys : EnvFetch(e, k, FALSE)

NextEnv == EnvPut \/ EnvDef \/ EnvGet

SpecEnv == InitEnv /\ [][NextEnv]_vars

\* What get(e, k) returns in machine mm, as a tree.
GetAbs(mm, e, k) ==
    LET ks == lval_symbol(mm, k)
        g == lenv_get(ks.m, e, ks.rv)
    IN  Abs(g.m, g.rv)

RECURSIVE Ancestors(_, _)

\* The scopes on the path from e up to the root, e included.
Ancestors(mm, e) == IF e = NULL THEN {} ELSE {e} \cup Ancestors(mm, mm.envs[e].parent)

\* What the puts accepted so far say get(e, k) is: the value of the nearest
\* scope on the path from e to the root that an accepted put bound k in.
Expected(e, k) ==
    LET binders == {x \in Ancestors(m, e) : k \in DOMAIN bound[x]}
        nearest == CHOOSE x \in binders : \A y \in binders : y \in Ancestors(m, x)
    IN  IF binders = {} THEN AErr("unbound symbol '%s'", <<k>>) ELSE bound[nearest][k]

(***************************************************************************)
(* Scenario 2 (SpecCopy): a driver that keeps what it put and what it got  *)
(* and then changes it: it pops elements of a list it holds, negates a     *)
(* number it holds in place, disposes of a value it holds.                 *)
(*   held : the values the driver owns, each with the call it came from    *)
(***************************************************************************)
CopyValues == {ALong(1), AQ(<<ALong(1), ALong(2)>>)}

InitCopy ==
    /\ m = lilith_init(<<>>)
    /\ held = <<>>
    /\ bound = [e \in {ROOT, TOP} |-> TableAbs(m, e)]
    /\ call = NoCall

CopyPut ==
    /\ Len(held) < MaxHeld
    /\ \E a \in CopyValues : EnvStore("put", TOP, TOP, "a", a, TRUE)

CopyGet ==
    /\ Len(held) < MaxHeld
    /\ \E k \in Keys : EnvFetch(TOP, k, TRUE)

\* Store the machine mm renumbered, the driver now holding the values hs.
Settle(mm, hs) ==
    LET order == CanonOrder(mm, [i \in 1..Len(hs) |-> hs[i].p])
    IN  /\ m' = Canon(mm, order)
        /\ held' = [i \in 1..Len(hs) |-> [hs[i] EXCEPT !.p = NewAddr(order, @)]]

\* The driver pops the first element of a list it holds and disposes of it.
HeldPop ==
    \E i \in 1..Len(held) :
        /\ IsList(Deref(m, held[i].p).type)
        /\ LVAL_EXPR_CNT(m, held[i].p) > 0
        /\ LET p == lval_pop(m, held[i].p) IN Settle(lval_del(p.m, p.rv), held)
        /\ call' = [NoCall EXCEPT !.op = "pop", !.k = held[i].from]
        /\ UNCHANGED bound

\* The driver negates a number it holds in place, as the arithmetic fold does.
HeldNegate ==
    \E i \in 1..Len(held) :
        /\ Deref(m, held[i].p).type = LVAL_LONG
        /\ Deref(m, held[i].p).num > 0
        /\ Settle([m EXCEPT !.heap[held[i].p].num = -@], held)
        /\ call' = [NoCall EXCEPT !.op = "negate", !.k = held[i].from]
        /\ UNCHANGED bound

\* The driver disposes of a value it holds.
HeldDel ==
    \E i \in 1..Len(held) :
        /\ Settle(lval_del(m, held[i].p), SubSeq(held, 1, i - 1) \o SubSeq(held, i + 1, Len(held)))
        /\ call' = [NoCall EXCEPT !.op = "del", !.k = held[i].from]
        /\ UNCHANGED bound

NextCopy == CopyPut \/ CopyGet \/ HeldPop \/ HeldNegate \/ HeldDel

SpecCopy == InitCopy /\ [][NextCopy]_vars

(***************************************************************************)
(* Scenario 3 (SpecSum): one call of an arithmetic builtin. The bundle is  *)
(* what the evaluator hands over: an S-expression of numbers.              *)
(*   call : the name called and the arguments; held : the value returned   *)
(***************************************************************************)
SeqsUpTo(S, n) == UNION {[1..k -> S] : k \in 0..n}

NumValues == {ALong(n) : n \in 0..MaxNum} \cup {ADouble(0, 1), ADouble(1, 2)}

\* What value.num_d of a cell that is no double may read as.
Garbage == {<<0, 1>>, <<7, 2>>, NaN}

InitSum ==
    /\ \E g \in Garbage : m = [lilith_init(<<>>) EXCEPT !.orc.garbage = g]
    /\ held = <<>>
    /\ bound = <<>>
    /\ \E k \in {SumNames[i] : i \in 1..Len(SumNames)}, args \in SeqsUpTo(NumValues, MaxArgs) \ {<<>>} :
          call = [op |-> "input", k |-> k, e |-> TOP, args |-> args]

SumCall ==
    /\ call.op = "input"
    /\ \E b \in {Build(m, AS(call.args))} :
          \E r \in {builtin_sum(b.m, call.e, b.rv, call.k)} :
             /\ m' = r.m
             /\ held' = <<[p |-> r.rv, from |-> "call"]>>
    /\ call' = [call EXCEPT !.op = "done"]
    /\ UNCHANGED bound

\* The same call served by the arithmetic of the eval file.
EvalSumCall ==
    /\ call.op = "input"
    /\ call.k \in EvalSumNames
    /\ \E b \in {Build(m, AS(call.args))} :
          \E r \in {eval_builtin_sum(b.m, call.e, call.k, b.rv)} :
             /\ m' = r.m
             /\ held' = <<[p |-> r.rv, from |-> "call"]>>
    /\ call' = [call EXCEPT !.op = "done_eval"]
    /\ UNCHANGED bound

NextSum == SumCall \/ EvalSumCall

SpecSum == InitSum /\ [][NextSum]_vars

\* The live cells that neither a binding nor the values in ptrs reach.
Leaked(mm, ptrs) ==
    LET reach == Visit(mm, EnvRoots(mm, 1) \o ptrs, <<>>)
    IN  {i \in 1..Len(mm.heap) : mm.heap[i].live} \ {reach[i] : i \in 1..Len(reach)}

(***************************************************************************)
(* Scenario 4 (SpecEval): one expression read and evaluated, in the root   *)
(* scope or in the scope lilith_init hands out.                            *)
(*   call : the expression and the scope; held : the value returned        *)
(***************************************************************************)
App(f, xs) == AS(<<ASym(f)>> \o xs)

QElems == {ALong(1), ALong(2)}

QValues == {AQ(es) : es \in SeqsUpTo(QElems, MaxArgs)}

\* The lists of at most one element.
QShort == {AQ(es) : es \in SeqsUpTo(QElems, 1)}

ConsHeads == {ALong(1), ADouble(1, 2), ASym("+")}

\* (def {a} 1), an unbound symbol, a number: the children of a sequence.
DefA == App("def", <<AQ(<<ASym("a")>>), ALong(1)>>)

SeqChildren == {ASym("u"), DefA, ALong(1)}

\* The names def is applied to.
DefNames == {"a", "b", "+"}

Exprs ==
    {App(f, <<q>>) : f \in {"head", "tail", "init", "len", "eval"}, q \in QValues}
    \cup {App("join", <<p, q>>) : p \in QValues, q \in QValues}
    \cup {App("join", <<p, q, r>>) : p \in QShort, q \in QShort, r \in QShort}
    \cup {App("join", <<App("head", <<q>>), App("tail", <<q>>)>>) : q \in QValues}
    \cup {App("cons", <<x, q>>) : x \in ConsHeads, q \in QValues}
    \cup {App("cons", <<x, App("tail", <<q>>)>>) : x \in ConsHeads, q \in QValues}
    \cup {App("def", <<AQ(<<ASym(k)>>), ALong(1)>>) : k \in {"a", "+"}}
    \cup {App("def", <<AQ([i \in 1..Len(ns) |-> ASym(ns[i])])>> \o [i \in 1..Len(ns) |-> ALong(i)]) :
             ns \in SeqsUpTo(DefNames, MaxArgs - 1) \ {<<>>}}
    \cup {App("list", <<c, d>>) : c \in SeqChildren, d \in SeqChildren}
    \cup {AS(<<x, ALong(2)>>) : x \in {ALong(1), ADouble(1, 2), AQ(<<>>)}}
    \cup {AS(<<ASym("+")>>), App("eval", <<AQ(<<ASym("+")>>)>>), AS(<<AS(<<ASym("+")>>), ALong(1)>>)}
    \cup {App(f, <<x, y>>) : f \in {"+", "/"}, x \in {ALong(0), ALong(1)}, y \in {ALong(0), ALong(1)}}

InitEval ==
    /\ \E o \in {"stale", "wild"}, u \in {"intact", "scribbled"} :
          m = [lilith_init(<<>>) EXCEPT !.orc.oob = o, !.orc.uaf = u]
    /\ held = <<>>
    /\ bound = <<>>
    /\ \E e \in {ROOT, TOP}, v \in Exprs : call = [op |-> "input", e |-> e, v |-> v]

Eval ==
    /\ call.op = "input"
    /\ \E b \in {Build(m, call.v)} :
          \E r \in {lval_eval(b.m, call.e, b.rv)} :
             /\ m' = r.m
             /\ held' = <<[p |-> r.rv, from |-> "eval"]>>
    /\ call' = [call EXCEPT !.op = "done"]
    /\ UNCHANGED bound

NextEval == Eval

SpecEval == InitEval /\ [][NextEval]_vars

(***************************************************************************)
(* Scenario 5 (SpecEq): one call of lval_is_equal on two lists.            *)
(*   call : the two lists and the answer; held : the two values built      *)
(***************************************************************************)
EqElems == {ALong(1), ALong(2), ADouble(1, 1)}

EqValues ==
    {AVal(t, 0, 1, "", <<>>, es) :
        t \in {LVAL_QEXPRESSION, LVAL_SEXPRESSION}, es \in SeqsUpTo(EqElems, MaxArgs)}

InitEq ==
    /\ m = lilith_init(<<>>)
    /\ held = <<>>
    /\ bound = <<>>
    /\ \E x \in EqValues, y \in EqValues : call = [op |-> "input", x |-> x, y |-> y, rv |-> FALSE]

EqCall ==
    /\ call.op = "input"
    /\ LET bx == Build(m, call.x)
           by == Build(bx.m, call.y)
       IN  /\ m' = by.m
           /\ held' = <<[p |-> bx.rv, from |-> "x"], [p |-> by.rv, from |-> "y"]>>
           /\ call' = [call EXCEPT !.op = "done", !.rv = lval_is_equal(by.m, bx.rv, by.rv)]
    /\ UNCHANGED bound

NextEq == EqCall

SpecEq == InitEq /\ [][NextEq]_vars

(***************************************************************************)
(* The environment claims.                                                 *)
(***************************************************************************)
\* C6: values crossing the environment boundary are copies. Whatever the
\* driver does to the value it put or to a value it got (popping its elements,
\* negating it, disposing of it), the binding still holds, and get still
\* returns, a value structurally equal to the one that was put.
C6_BindingsAreCopies ==
    \A k \in Keys \cap DOMAIN bound[TOP] :
        /\ Abs(m, m.envs[TOP].table[k]) = bound[TOP][k]
        /\ GetAbs(m, TOP, k) = bound[TOP][k]

\* A list was put under "a", the driver got it back and popped both elements
\* of the value it got.
C6_Witness ==
    /\ call.op = "pop"
    /\ call.k = "get"
    /\ "a" \in DOMAIN bound[TOP]
    /\ bound[TOP]["a"] = AQ(<<ALong(1), ALong(2)>>)
    /\ \E i \in 1..Len(held) :
          held[i].from = "get" /\ Abs(m, held[i].p) = AQ(<<>>)

\* C7: get(e, k) returns the binding of k in the nearest scope on the path from
\* e to the root that binds k, and Error("unbound symbol 'k'") exactly when no
\* scope on that path binds k: in every state for every scope and name, and
\* for the get the driver just made.
C7_GetFindsNearest ==
    /\ \A e \in Scopes, k \in Keys \cup {"b"} : GetAbs(m, e, k) = Expected(e, k)
    /\ call.op = "get" => call.rv = Expected(call.e, call.k)

\* Scope 3 is nested in TOP; "a" is bound in the root and, to another value,
\* in TOP, and not in scope 3: a get from scope 3 returned TOP's value.
C7_Witness ==
    /\ call.op = "get" /\ call.e = 3 /\ call.k = "a"
    /\ m.envs[3].parent = TOP
    /\ "a" \notin DOMAIN bound[3]
    /\ "a" \in DOMAIN bound[TOP] /\ "a" \in DOMAIN bound[ROOT]
    /\ bound[TOP]["a"] # bound[ROOT]["a"]
    /\ call.rv = bound[TOP]["a"]

\* C8: put(e, k, v) is rejected exactly when e is read-only and k is bound in
\* e's own table, and then leaves the bindings of e as they were; otherwise it
\* is accepted and a get(e, k) right after it returns v.
C8_PutContract ==
    [][call'.op = "put" =>
          /\ call'.rej = (m.envs[call'.e].read_only /\ call'.k \in DOMAIN m.envs[call'.e].table)
          /\ call'.rej => TableAbs(m', call'.e) = TableAbs(m, call'.e)
          /\ ~call'.rej => GetAbs(m', call'.e, call'.k) = call'.v]_vars

\* A put of "a" into the read-only root was rejected: an earlier put had bound
\* "a" there, to another value, and that value is still bound.
C8_Witness ==
    /\ call.op = "put" /\ call.e = ROOT /\ call.k = "a" /\ call.rej
    /\ "a" \in DOMAIN m.envs[ROOT].table
    /\ Abs(m, m.envs[ROOT].table["a"]) # call.v

(***************************************************************************)
(* The arithmetic, equality and evaluator claims.                          *)
(***************************************************************************)
\* The value the last call returned, as a tree.
Result == Abs(m, held[1].p)

\* v is the application of the builtin f to n arguments.
IsApp(v, f, n) == v.type = LVAL_SEXPRESSION /\ Len(v.elems) = n + 1 /\ v.elems[1] = ASym(f)

\* C1: `/` applied to a non-empty bundle of numbers with a zero among the
\* divisors (the arguments after the first) returns Error("divide by zero"),
\* also when further operands follow the zero divisor.
C1_DivideByZero ==
    (/\ call.op = "done"
     /\ call.k = "/"
     /\ \E i \in 2..Len(call.args) : call.args[i].num = 0)
    => Result = AErr("divide by zero", <<>>)

\* C2: lval_is_equal on two lists of the same tag is true exactly when they
\* have the same count and are equal element by element.
C2_EqualityStructural ==
    (call.op = "done" /\ call.x.type = call.y.type)
    => LET xs == Deref(m, held[1].p).cell
           ys == Deref(m, held[2].p).cell
       IN  call.rv <=> (/\ Len(xs) = Len(ys)
                        /\ \A i \in 1..Len(xs) : lval_is_equal(m, xs[i], ys[i]))

\* C3: `def` of a name bound in the read-only root, from the root or from its
\* child scope, returns an Error mentioning "built-in", and afterwards a lookup
\* of the name from every scope still yields the builtin.
C3_BuiltinsProtected ==
    (call.op = "done" /\ call.v = App("def", <<AQ(<<ASym("+")>>), ALong(1)>>))
    => /\ Result = AErr("function '%s' is a built-in", <<"+">>)
       /\ \A e \in {ROOT, TOP} : GetAbs(m, e, "+") = AFun("+")

\* C4: evaluation of a sequence stops at the first child whose value is an
\* Error: that Error is returned and no later sibling is evaluated, so the
\* `def` of a later sibling binds nothing.
C4_StopsAtFirstError ==
    (call.op = "done" /\ IsApp(call.v, "list", 2) /\ call.v.elems[2] = ASym("u"))
    => /\ Result = AErr("unbound symbol '%s'", <<"u">>)
       /\ \A e \in {ROOT, TOP} : "a" \notin DOMAIN m.envs[e].table

\* C5: after a builtin call every value the call owned is part of the value
\* returned or has been disposed of exactly once: nothing is left undisposed
\* and nothing was disposed of twice.
C5_OwnedExactlyOnce ==
    call.op = "done" => Leaked(m, <<held[1].p>>) = {} /\ ~m.dfree

\* The value a cons head evaluates to.
ValueOf(x) == IF x.type = LVAL_SYMBOL THEN AFun(x.str) ELSE x

\* C9: cons(x, q) is the Q-expression of x followed by the elements of q in
\* their order; cons(x, tail(q)) is x followed by all elements of q but the
\* first.
C9_ConsPrepends ==
    (call.op = "done" /\ IsApp(call.v, "cons", 2))
    => LET x == call.v.elems[2]
           q == call.v.elems[3]
       IN  /\ q.type = LVAL_QEXPRESSION => Result = AQ(<<ValueOf(x)>> \o q.elems)
           /\ (IsApp(q, "tail", 1) /\ q.elems[2].elems # <<>>)
                 => Result = AQ(<<ValueOf(x)>> \o Tail(q.elems[2].elems))

RECURSIVE Flatten(_, _)

\* The elements of the lists qs[i..], one list after the other.
Flatten(qs, i) == IF i > Len(qs) THEN <<>> ELSE qs[i].elems \o Flatten(qs, i + 1)

C11_ComparisonBoolean ==
    (call.op = "done" /\ call.k \in {">", "<", ">=", "<="})
    => Result.type = LVAL_BOOL /\ ~m.ub

\* The kind the promotion rule gives the result of two operands.
Promoted(x, y) ==
    IF x.type = LVAL_LONG /\ y.type = LVAL_LONG THEN LVAL_LONG ELSE LVAL_DOUBLE

\* C12: for two numeric operands the result of + - * ^ max min % is an Integer
\* when both are Integers and a Decimal when either is a Decimal, and `/` with
\* a divisor that is not zero returns a Decimal, also for two Integers.
C12_Promotion ==
    (call.op \in {"done", "done_eval"} /\ Len(call.args) = 2)
    => /\ call.k \in {"+", "-", "*", "^", "max", "min", "%"}
             => Result.type = Promoted(call.args[1], call.args[2])
       /\ (call.k = "/" /\ call.args[2].num # 0) => Result.type = LVAL_DOUBLE

\* The names of the list (def {n1 .. nk} v1 .. vk) binds.
NamesOf(v) == [i \in 1..Len(v.elems[2].elems) |-> v.elems[2].elems[i].str]

\* v is def applied to k distinct names and k values.
IsDef(v) ==
    /\ v.type = LVAL_SEXPRESSION
    /\ Len(v.elems) >= 2
    /\ v.elems[1] = ASym("def")
    /\ v.elems[2].type = LVAL_QEXPRESSION
    /\ Len(v.elems[2].elems) = Len(v.elems) - 2
    /\ \A i, j \in 1..Len(v.elems[2].elems) : NamesOf(v)[i] = NamesOf(v)[j] => i = j

\* C13: def applied in the read-only root to names n1..nk with k values, nj the
\* first of them already bound there, returns an Error mentioning "built-in";
\* afterwards n1..n(j-1) are bound to their values and nj and the later names
\* are as they were.
C13_DefNotAtomic ==
    (call.op = "done" /\ call.e = ROOT /\ IsDef(call.v))
    => LET ns == NamesOf(call.v)
           t == m.envs[ROOT].table
       IN  \A j \in 1..Len(ns) :
              (/\ ns[j] \in DOMAIN lilith_init(<<>>).envs[ROOT].table
               /\ \A i \in 1..(j - 1) : ns[i] \notin DOMAIN lilith_init(<<>>).envs[ROOT].table)
              => /\ Result = AErr("function '%s' is a built-in", <<ns[j]>>)
                 /\ \A i \in 1..(j - 1) :
                       ns[i] \in DOMAIN t /\ Abs(m, t[ns[i]]) = call.v.elems[i + 2]
                 /\ \A i \in j..Len(ns) :
                       IF ns[i] \in DOMAIN lilith_init(<<>>).envs[ROOT].table
                       THEN Abs(m, t[ns[i]]) = AFun(ns[i])
                       ELSE ns[i] \notin DOMAIN t

\* (def {a +} 1 2) was evaluated in the root: `a` is bound to 1, the Error
\* names `+`.
C13_Witness ==
    /\ call.op = "done"
    /\ call.e = ROOT
    /\ call.v = App("def", <<AQ(<<ASym("a"), ASym("+")>>), ALong(1), ALong(2)>>)
    /\ Result = AErr("function '%s' is a built-in", <<"+">>)
    /\ "a" \in DOMAIN m.envs[ROOT].table
    /\ Abs(m, m.envs[ROOT].table["a"]) = ALong(1)

\* C14: an S-expression of two or more elements, none evaluating to an Error,
\* whose first element is no function evaluates to Error("s-expression does not
\* start with function, '<type>'") with the type name of that element, read
\* while the element is live.
C14_NotAFunction ==
    (/\ call.op = "done"
     /\ call.v.type = LVAL_SEXPRESSION
     /\ Len(call.v.elems) >= 2
     /\ \A i \in 1..Len(call.v.elems) :
           call.v.elems[i].type \in {LVAL_LONG, LVAL_DOUBLE, LVAL_QEXPRESSION})
    => /\ Result = AErr("s-expression does not start with function, '%s'",
                        <<ltype_name(call.v.elems[1].type)>>)
       /\ ~m.ub

\* C15: the evaluator never invokes a builtin with an empty bundle: an
\* S-expression that reduces to a single element returns that element without
\* applying it, so (+) and eval {+} yield the function itself.
C15_NoEmptyBundle ==
    call.op = "done"
    => /\ 0 \notin m.argc
       /\ call.v = AS(<<ASym("+")>>) => Result = AFun("+")
       /\ call.v = App("eval", <<AQ(<<ASym("+")>>)>>) => Result = AFun("+")

\* eval {+} was evaluated: eval was invoked with a bundle of one element, and
\* (+) then reduced to the function without a call.
C15_Witness ==
    /\ call.op = "done"
    /\ call.v = App("eval", <<AQ(<<ASym("+")>>)>>)
    /\ m.argc = {1}
    /\ Result = AFun("+")

\* The scopes between e and the root, e included and the root excluded, that
\* bind k in their own table.
Shadowing(mm, e, k) == {x \in Ancestors(mm, e) \ {ROOT} : k \in DOMAIN mm.envs[x].table}

\* What a def(e, k, v) does to the tables, whichever scope e it is called from:
\* it is rejected exactly when the root already binds k and then leaves the
\* root's bindings as they were; accepted, it binds k to v in the root and
\* changes the table of no other scope. No step rebinds a name of the root.
DefTargetsRoot ==
    /\ call'.op = "def" =>
          /\ lenv_root(m, call'.e) = ROOT /\ m.envs[ROOT].read_only
          /\ call'.rej = (call'.k \in DOMAIN m.envs[ROOT].table)
          /\ call'.rej => TableAbs(m', ROOT) = TableAbs(m, ROOT)
          /\ ~call'.rej =>
                /\ call'.k \in DOMAIN m'.envs[ROOT].table
                /\ TableAbs(m', ROOT)[call'.k] = call'.v
                /\ \A e \in Scopes \ {ROOT} : TableAbs(m', e) = TableAbs(m, e)
    /\ \A k \in DOMAIN m.envs[ROOT].table :
          /\ k \in DOMAIN m'.envs[ROOT].table
          /\ TableAbs(m', ROOT)[k] = TableAbs(m, ROOT)[k]

\* C16 as stated: def always targets the read-only root; the first def of a
\* name the root does not bind is accepted and binds it in the root, not in the
\* calling scope's table, and a get of the name from every scope of the chain
\* then returns the value defined; every later def of the name is rejected and
\* the root keeps the first value.
C16_DefVisibleEverywhere ==
    [][/\ DefTargetsRoot
       /\ (call'.op = "def" /\ ~call'.rej)
             => \A e \in Scopes : GetAbs(m', e, call'.k) = call'.v]_vars

\* C16, amended: as above, but a get of the name returns the value defined
\* from the scopes of the chain that have no binding of the name of their own
\* or in a scope between them and the root; the others get what they got before.
C16_DefTargetsRoot ==
    [][/\ DefTargetsRoot
       /\ (call'.op = "def" /\ ~call'.rej)
             => \A e \in Scopes :
                   GetAbs(m', e, call'.k) =
                      IF Shadowing(m', e, call'.k) = {} THEN call'.v ELSE GetAbs(m, e, call'.k)]_vars

\* A def of "a" from scope 3 was rejected: the root binds "a", to another
\* value than the one offered, by an earlier def, and scope 3 and TOP have no
\* "a" of their own.
C16_Witness ==
    /\ call.op = "def" /\ call.e = 3 /\ call.k = "a" /\ call.rej
    /\ "a" \in DOMAIN m.envs[ROOT].table
    /\ Abs(m, m.envs[ROOT].table["a"]) # call.v
    /\ "a" \notin DOMAIN m.envs[3].table /\ "a" \notin DOMAIN m.envs[TOP].table

\* C17: the arithmetic fold is total on non-empty bundles of numbers: for every
\* operator it returns an Integer, a Decimal, a Boolean or an Error and reaches
\* no undefined operation, and `%` applied to two Integers with a zero divisor
\* returns an Error.
C17_FoldTotal ==
    call.op \in {"done", "done_eval"}
    => /\ ~m.ub
       /\ Result.type \in {LVAL_LONG, LVAL_DOUBLE, LVAL_BOOL, LVAL_ERROR}
       /\ (/\ call.k = "%"
           /\ Len(call.args) = 2
           /\ call.args[1].type = LVAL_LONG /\ call.args[2].type = LVAL_LONG
           /\ call.args[2].num = 0)
          => Result.type = LVAL_ERROR

==============================================================================
